---- MODULE Spec2Model ----
(***************************************************************************)
(* send_one_replaceable_object_t<T>: the single-slot object channel of the *)
(* sample tool.  The slot is one std::atomic<T*>; send() allocates a copy  *)
(* of its argument and exchanges it into the slot, receive() polls the     *)
(* slot, exchanges NULL into it and returns a copy of what it took.        *)
(* Every atomic operation (load, exchange) and every heap operation (new,  *)
(* assignment through a pointer, delete) of a thread is one step.          *)
(***************************************************************************)
EXTENDS Integers, Sequences, FiniteSets, TLC

\* ---------------------------------------------------------------- bounds
MaxSends == 3      \* send() calls in a run with one producer and one consumer
MaxSendsMC == 2    \* send() calls in a run with two consumers
MaxSendsFair == 2  \* send() calls in a run checked under fair scheduling
MaxSendsMP == 2    \* send() calls in a run with two producers
MaxVal   == 2      \* payload values are 1..MaxVal
ProdStepCap == 5   \* stepsP stops counting here
ConsStepCap == 7   \* sinceStore stops counting here
RoundCap == 2      \* rounds stops counting here
MaxCalls == 3      \* predict() and annotate() calls on one DarkHelp object

NULL == 0

P == {"p1", "p2"}            \* threads that may call send()
C == {"c1", "c2"}            \* threads that may call receive()
Ids == 1..MaxSends           \* heap objects, in allocation order
Values == 1..MaxVal

VARIABLES
    sync,        \* const bool sync
    a_ptr,       \* std::atomic<T*> a_ptr: NULL or the object in the slot
    alive,       \* the channel object has been constructed and not destroyed
    producers,   \* the threads that call send() in this run
    consumers,   \* the threads that call receive() in this run
    budget,      \* the number of send() calls this run makes at most
    heap,        \* every T allocated by send(): its state and its content
    pcP,         \* position of each producer inside send()
    arg,         \* send(): _obj
    new_ptr,     \* send(): T *new_ptr
    old_ptr,     \* send(): std::unique_ptr<T> old_ptr
    pcC,         \* position of each consumer inside receive()
    ptr,         \* receive(): std::unique_ptr<T> ptr
    obj,         \* receive(): T obj
    present,     \* result of the last is_object_present(), if qctx # "none"
    \* history of the run, read by the properties only
    sent,        \* values passed to send(), in call order
    received,    \* values returned by receive(), in return order
    taken,       \* the objects those values were copied from
    completed,   \* number of send() calls that have returned
    dropped,     \* objects a send() got back from its exchange
    fault,       \* undefined behaviour met so far
    slotHist,    \* last event on the slot: "fresh", "stored" or "taken"
    qctx,        \* slotHist at the last is_object_present()
    lastStored,  \* object of the most recent send() exchange
    storedAtXchg,\* lastStored at each consumer's last exchange
    firstRecvAt, \* completed when the first receive() was called (-1: none yet)
    firstStore,  \* receive() called on an empty slot: the first object stored
                 \* since it last found the slot empty (0: none yet, -1: not tracked)
    sinceStore,  \* the consumer's own steps since that store
    rounds,      \* exchanges made so far by the current receive()
    stepsP,      \* the producer's own steps inside the current send()
    \* class DarkHelp
    threshold,          \* float threshold, in percent
    original_image,     \* cv::Mat original_image: the objects the network finds in it
    prediction_results, \* PredictionResults prediction_results
    annotated_image,    \* cv::Mat annotated_image: the image and the boxes drawn on it
    \* history of the DarkHelp object, read by the properties only
    calls,              \* the new_threshold arguments of the calls made, in order
    predictedWith,      \* the threshold the last predict() applied
    annotatedFrom       \* predictedWith when annotated_image was drawn

code  == <<sync, a_ptr, alive, producers, consumers, budget, heap, pcP, arg, new_ptr,
           old_ptr, pcC, ptr, obj, present>>
ghost == <<sent, received, taken, completed, dropped, fault, slotHist, qctx,
           lastStored, storedAtXchg, firstRecvAt, firstStore, sinceStore, rounds,
           stepsP>>
dh    == <<threshold, original_image, prediction_results, annotated_image,
           calls, predictedWith, annotatedFrom>>
vars  == <<code, ghost, dh>>

config  == <<sync, producers, consumers, budget>>
prodLoc == <<arg, new_ptr, old_ptr>>
consLoc == <<ptr, obj>>
query   == <<present, qctx>>

Min(a, b) == IF a < b THEN a ELSE b

\* The step counts and the per-receive store history belong to the contract of
\* one producer and one consumer, and are recorded in such runs only.
Tracked == Cardinality(producers) = 1 /\ Cardinality(consumers) = 1

IsPrefix(s, t) == Len(s) <= Len(t) /\ \A i \in 1..Len(s) : s[i] = t[i]

Range(s) == {s[i] : i \in 1..Len(s)}

\* new T: the next object of the heap
NextId == Cardinality({i \in Ids : heap[i].st # "free"}) + 1

\* faulty variant: the owner goes away without deleting its object
Delete_Leak(h, i) == h

\* delete p (what ~unique_ptr does with a non-NULL pointer)
Delete(h, i) == [h EXCEPT ![i].st = "deleted"]

\* ------------------------------------------------------------ construction
\* send_one_replaceable_object_t(bool _sync) : sync(_sync), a_ptr(NULL)
Constructed(s) ==
    /\ sync = s
    /\ a_ptr = NULL
    /\ alive = TRUE

\* ------------------------------------------------------------ class DarkHelp
\* A probability is a whole number of percent.  An image is known by the objects
\* the network finds in it, and an object by its best probability.
DefaultThreshold == 50
Probabilities == {10, 30, 60, 90}
Images == SUBSET Probabilities
ThresholdArgs == {-100, -1, 0, 25, 75}

\* DarkHelp(cfg_filename, weights_filename, names_filename): threshold defaults
\* to 0.5, no image has been seen and there are no results
DarkHelpConstructed ==
    /\ threshold = DefaultThreshold
    /\ original_image = {}
    /\ prediction_results = {}
    /\ annotated_image = [image |-> {}, boxes |-> {}]
    /\ calls = <<>>
    /\ predictedWith = DefaultThreshold
    /\ annotatedFrom = DefaultThreshold

\* faulty variant: a new threshold of zero is taken for "keep the previous one"
NewThreshold_ZeroKeeps(t) == IF t > 0 THEN t ELSE threshold

\* new_threshold: "If less than zero, the previous threshold will be applied.
\* If >= 0, then threshold will be set to this new value."
NewThreshold(t) == IF t >= 0 THEN t ELSE threshold

\* the objects of an image whose probability reaches the threshold
Detect(img, th) == {d \in img : d >= th}

\* PredictionResults predict(cv::Mat mat, const float new_threshold = -1.0f)
Predict(img, t) ==
    /\ Len(calls) < MaxCalls
    /\ threshold' = NewThreshold(t)
    /\ original_image' = img
    /\ prediction_results' = Detect(img, threshold')
    /\ calls' = Append(calls, t)
    /\ predictedWith' = threshold'
    /\ UNCHANGED <<annotated_image, annotatedFrom>>
    /\ UNCHANGED <<code, ghost>>

\* faulty variant: annotate() runs the prediction again with its own threshold
AnnotateResults_Recompute(t) == Detect(original_image, NewThreshold(t))

\* annotate() takes the most recent prediction_results as they are
AnnotateResults(t) == prediction_results

\* cv::Mat annotate(const float new_threshold = -1.0f)
Annotate(t) ==
    /\ Len(calls) < MaxCalls
    /\ threshold' = NewThreshold(t)
    /\ prediction_results' = AnnotateResults(t)
    /\ annotated_image' = [image |-> original_image,
                           boxes |-> {d \in prediction_results' : d >= threshold'}]
    /\ calls' = Append(calls, t)
    /\ annotatedFrom' = predictedWith
    /\ UNCHANGED <<original_image, predictedWith>>
    /\ UNCHANGED <<code, ghost>>

NextDH ==
    \/ \E img \in Images, t \in ThresholdArgs : Predict(img, t)
    \/ \E t \in ThresholdArgs : Annotate(t)

\* ------------------------------------------------------------ the channel
InitRest ==
    /\ DarkHelpConstructed
    /\ heap = [i \in Ids |-> [st |-> "free", val |-> 0]]
    /\ pcP = [p \in P |-> "idle"]
    /\ arg = [p \in P |-> 0]
    /\ new_ptr = [p \in P |-> NULL]
    /\ old_ptr = [p \in P |-> NULL]
    /\ pcC = [c \in C |-> "idle"]
    /\ ptr = [c \in C |-> NULL]
    /\ obj = [c \in C |-> 0]
    /\ present = FALSE
    /\ sent = <<>>
    /\ received = <<>>
    /\ taken = <<>>
    /\ completed = 0
    /\ dropped = {}
    /\ fault = {}
    /\ slotHist = "fresh"
    /\ qctx = "none"
    /\ lastStored = NULL
    /\ storedAtXchg = [c \in C |-> NULL]
    /\ firstRecvAt = -1
    /\ firstStore = [c \in C |-> -1]
    /\ sinceStore = [c \in C |-> 0]
    /\ rounds = [c \in C |-> 0]
    /\ stepsP = [p \in P |-> 0]

\* one producer thread and one consumer thread, either mode
Init ==
    /\ \E s \in BOOLEAN : Constructed(s)
    /\ producers = {"p1"}
    /\ consumers = {"c1"}
    /\ budget = MaxSends
    /\ InitRest

\* one producer thread and one consumer thread, either mode, for the runs
\* checked under fair scheduling
InitFair ==
    /\ \E s \in BOOLEAN : Constructed(s)
    /\ producers = {"p1"}
    /\ consumers = {"c1"}
    /\ budget = MaxSendsFair
    /\ InitRest

\* one producer thread and one consumer thread on a synchronous-mode channel,
\* for the runs checked under fair scheduling of both threads
InitFairSync ==
    /\ Constructed(TRUE)
    /\ producers = {"p1"}
    /\ consumers = {"c1"}
    /\ budget = MaxSendsFair
    /\ InitRest

\* one producer thread and two consumer threads, either mode
InitMC ==
    /\ \E s \in BOOLEAN : Constructed(s)
    /\ producers = {"p1"}
    /\ consumers = {"c1", "c2"}
    /\ budget = MaxSendsMC
    /\ InitRest

\* two producer threads and one consumer thread, either mode
InitMP ==
    /\ \E s \in BOOLEAN : Constructed(s)
    /\ producers = {"p1", "p2"}
    /\ consumers = {"c1"}
    /\ budget = MaxSendsMP
    /\ InitRest

\* a DarkHelp object alone: the channel is constructed and not used
InitDH ==
    /\ Constructed(TRUE)
    /\ producers = {}
    /\ consumers = {}
    /\ budget = 0
    /\ InitRest

\* ------------------------------------------------------------------ send
Tick(p) == stepsP' = [stepsP EXCEPT ![p] = IF Tracked THEN Min(@ + 1, ProdStepCap) ELSE @]

\* void send(T const& _obj): the call
SendCall(p, v) ==
    /\ alive /\ p \in producers
    /\ pcP[p] = "idle"
    /\ Len(sent) < budget
    /\ pcP' = [pcP EXCEPT ![p] = "new"]
    /\ arg' = [arg EXCEPT ![p] = v]
    /\ sent' = Append(sent, v)
    /\ stepsP' = [stepsP EXCEPT ![p] = 0]
    /\ UNCHANGED dh
    /\ UNCHANGED <<config, a_ptr, alive, heap, new_ptr, old_ptr, pcC, consLoc, query>>
    /\ UNCHANGED <<received, taken, completed, dropped, fault, slotHist,
                   lastStored, storedAtXchg, firstRecvAt, firstStore, sinceStore, rounds>>

\* T *new_ptr = new T;
SendNew(p) ==
    /\ pcP[p] = "new"
    /\ heap' = [heap EXCEPT ![NextId] = [st |-> "live", val |-> 0]]
    /\ new_ptr' = [new_ptr EXCEPT ![p] = NextId]
    /\ pcP' = [pcP EXCEPT ![p] = "write"]
    /\ Tick(p)
    /\ UNCHANGED dh
    /\ UNCHANGED <<config, a_ptr, alive, arg, old_ptr, pcC, consLoc, query>>
    /\ UNCHANGED <<sent, received, taken, completed, dropped, fault, slotHist,
                   lastStored, storedAtXchg, firstRecvAt, firstStore, sinceStore, rounds>>

\* faulty variant: the producer waits for an empty slot in both modes
SendWriteTarget_AlwaysWait(p) == "load"

\* if (sync) { while ... } : the polling loop is entered in synchronous mode only
SendWriteTarget(p) == IF sync THEN "load" ELSE "xchg"

\* *new_ptr = _obj;
SendWrite(p) ==
    /\ pcP[p] = "write"
    /\ heap' = [heap EXCEPT ![new_ptr[p]].val = arg[p]]
    /\ pcP' = [pcP EXCEPT ![p] = SendWriteTarget(p)]
    /\ Tick(p)
    /\ UNCHANGED dh
    /\ UNCHANGED <<config, a_ptr, alive, prodLoc, pcC, consLoc, query>>
    /\ UNCHANGED <<sent, received, taken, completed, dropped, fault, slotHist,
                   lastStored, storedAtXchg, firstRecvAt, firstStore, sinceStore, rounds>>

\* faulty variant: the producer never waits for the slot to empty
SendLoadTarget_NoWait(p) == "xchg"

\* while (a_ptr.load()) ...: where the loop condition sends the producer
SendLoadTarget(p) == IF a_ptr # NULL THEN "sleep" ELSE "xchg"

SendLoad(p) ==
    /\ pcP[p] = "load"
    /\ pcP' = [pcP EXCEPT ![p] = SendLoadTarget(p)]
    /\ Tick(p)
    /\ UNCHANGED dh
    /\ UNCHANGED <<config, a_ptr, alive, heap, prodLoc, pcC, consLoc, query>>
    /\ UNCHANGED <<sent, received, taken, completed, dropped, fault, slotHist,
                   lastStored, storedAtXchg, firstRecvAt, firstStore, sinceStore, rounds>>

\* std::this_thread::sleep_for(std::chrono::milliseconds(3)); back to the load
SendSleep(p) ==
    /\ pcP[p] = "sleep"
    /\ pcP' = [pcP EXCEPT ![p] = "load"]
    /\ Tick(p)
    /\ UNCHANGED dh
    /\ UNCHANGED <<config, a_ptr, alive, heap, prodLoc, pcC, consLoc, query>>
    /\ UNCHANGED <<sent, received, taken, completed, dropped, fault, slotHist,
                   lastStored, storedAtXchg, firstRecvAt, firstStore, sinceStore, rounds>>

\* the pending receive() calls that were made on an empty slot and have seen
\* no store yet now have their first store
NoteStore(id) ==
    firstStore' = [c \in C |-> IF firstStore[c] = 0 THEN id ELSE firstStore[c]]

\* faulty variant: an exchange that keeps a pending value and hands the new
\* object back to the caller instead
SendExchange_KeepPending(p) ==
    IF a_ptr # NULL THEN [slot |-> a_ptr, old |-> new_ptr[p]]
                    ELSE [slot |-> new_ptr[p], old |-> NULL]

\* a_ptr.exchange(new_ptr): the slot afterwards, and the value returned
SendExchange(p) == [slot |-> new_ptr[p], old |-> a_ptr]

\* std::unique_ptr<T> old_ptr(a_ptr.exchange(new_ptr));
SendXchg(p) ==
    /\ pcP[p] = "xchg"
    /\ a_ptr' = SendExchange(p).slot
    /\ old_ptr' = [old_ptr EXCEPT ![p] = SendExchange(p).old]
    /\ pcP' = [pcP EXCEPT ![p] = "del"]
    /\ Tick(p)
    /\ dropped' = IF old_ptr'[p] # NULL THEN dropped \cup {old_ptr'[p]} ELSE dropped
    /\ slotHist' = "stored"
    /\ lastStored' = new_ptr[p]
    /\ NoteStore(new_ptr[p])
    /\ UNCHANGED dh
    /\ UNCHANGED <<config, alive, heap, arg, new_ptr, pcC, consLoc, query>>
    /\ UNCHANGED <<sent, received, taken, completed, fault,
                   storedAtXchg, firstRecvAt, sinceStore, rounds>>

\* } : ~unique_ptr deletes what the exchange returned, and send() returns
SendDel(p) ==
    /\ pcP[p] = "del"
    /\ IF old_ptr[p] = NULL
         THEN UNCHANGED <<heap, fault>>
         ELSE /\ heap' = Delete(heap, old_ptr[p])
              /\ fault' = IF heap[old_ptr[p]].st = "live" THEN fault
                          ELSE fault \cup {"double delete"}
    /\ pcP' = [pcP EXCEPT ![p] = "idle"]
    /\ arg' = [arg EXCEPT ![p] = 0]
    /\ new_ptr' = [new_ptr EXCEPT ![p] = NULL]
    /\ old_ptr' = [old_ptr EXCEPT ![p] = NULL]
    /\ completed' = completed + 1
    /\ Tick(p)
    /\ UNCHANGED dh
    /\ UNCHANGED <<config, a_ptr, alive, pcC, consLoc, query>>
    /\ UNCHANGED <<sent, received, taken, dropped, slotHist,
                   lastStored, storedAtXchg, firstRecvAt, firstStore, sinceStore, rounds>>

\* --------------------------------------------------------------- receive
ConsTick(c) ==
    sinceStore' = [sinceStore EXCEPT ![c] =
                       IF firstStore[c] > 0 THEN Min(@ + 1, ConsStepCap) ELSE @]

\* T receive(): the call;  std::unique_ptr<T> ptr;
RecvCall(c) ==
    /\ alive /\ c \in consumers
    /\ pcC[c] = "idle"
    /\ pcC' = [pcC EXCEPT ![c] = "load"]
    /\ ptr' = [ptr EXCEPT ![c] = NULL]
    /\ firstRecvAt' = IF firstRecvAt = -1 THEN completed ELSE firstRecvAt
    /\ firstStore' = [firstStore EXCEPT ![c] = IF Tracked /\ a_ptr = NULL THEN 0 ELSE -1]
    /\ sinceStore' = [sinceStore EXCEPT ![c] = 0]
    /\ UNCHANGED dh
    /\ UNCHANGED <<config, a_ptr, alive, heap, pcP, prodLoc, obj, query>>
    /\ UNCHANGED <<sent, received, taken, completed, dropped, fault, slotHist,
                   lastStored, storedAtXchg, stepsP>>
    /\ rounds' = [rounds EXCEPT ![c] = 0]

\* faulty variant: the loop condition is inverted
RecvLoadTarget_Inverted(c) == IF a_ptr # NULL THEN "sleep" ELSE "xchg"

\* while (!a_ptr.load()) ...: where the loop condition sends the consumer
RecvLoadTarget(c) == IF a_ptr = NULL THEN "sleep" ELSE "xchg"

RecvLoad(c) ==
    /\ pcC[c] = "load"
    /\ pcC' = [pcC EXCEPT ![c] = RecvLoadTarget(c)]
    /\ ConsTick(c)
    /\ UNCHANGED dh
    /\ UNCHANGED <<config, a_ptr, alive, heap, pcP, prodLoc, consLoc, query>>
    /\ UNCHANGED <<sent, received, taken, completed, dropped, fault, slotHist,
                   lastStored, storedAtXchg, firstRecvAt, firstStore, rounds, stepsP>>

\* std::this_thread::sleep_for(std::chrono::milliseconds(3)); back to the load
RecvSleep(c) ==
    /\ pcC[c] = "sleep"
    /\ pcC' = [pcC EXCEPT ![c] = "load"]
    /\ ConsTick(c)
    /\ UNCHANGED dh
    /\ UNCHANGED <<config, a_ptr, alive, heap, pcP, prodLoc, consLoc, query>>
    /\ UNCHANGED <<sent, received, taken, completed, dropped, fault, slotHist,
                   lastStored, storedAtXchg, firstRecvAt, firstStore, rounds, stepsP>>

\* faulty variant: the slot is read but not cleared (a load, not an exchange)
RecvExchange_NoClear(c) == [slot |-> a_ptr, old |-> a_ptr]

\* a_ptr.exchange(NULL): the slot afterwards, and the value returned
RecvExchange(c) == [slot |-> NULL, old |-> a_ptr]

\* ptr.reset(a_ptr.exchange(NULL));  reset deletes what ptr held before
RecvXchg(c) ==
    /\ pcC[c] = "xchg"
    /\ a_ptr' = RecvExchange(c).slot
    /\ ptr' = [ptr EXCEPT ![c] = RecvExchange(c).old]
    /\ heap' = IF ptr[c] # NULL THEN Delete(heap, ptr[c]) ELSE heap
    /\ pcC' = [pcC EXCEPT ![c] = "test"]
    /\ slotHist' = IF a_ptr # NULL THEN "taken" ELSE slotHist
    /\ storedAtXchg' = [storedAtXchg EXCEPT ![c] = IF Tracked THEN lastStored ELSE @]
    /\ IF ptr'[c] = NULL /\ firstStore[c] > 0
         THEN /\ firstStore' = [firstStore EXCEPT ![c] = 0]
              /\ sinceStore' = [sinceStore EXCEPT ![c] = 0]
         ELSE /\ ConsTick(c)
              /\ UNCHANGED firstStore
    /\ rounds' = [rounds EXCEPT ![c] = Min(@ + 1, RoundCap)]
    /\ UNCHANGED dh
    /\ UNCHANGED <<config, alive, pcP, prodLoc, obj, query>>
    /\ UNCHANGED <<sent, received, taken, completed, dropped, fault,
                   lastStored, firstRecvAt, stepsP>>

\* faulty variant: no retry, the result of the exchange is used as it is
RecvTestTarget_NoRetry(c) == "copy"

\* } while (!ptr);
RecvTestTarget(c) == IF ptr[c] = NULL THEN "load" ELSE "copy"

RecvTest(c) ==
    /\ pcC[c] = "test"
    /\ pcC' = [pcC EXCEPT ![c] = RecvTestTarget(c)]
    /\ ConsTick(c)
    /\ UNCHANGED dh
    /\ UNCHANGED <<config, a_ptr, alive, heap, pcP, prodLoc, consLoc, query>>
    /\ UNCHANGED <<sent, received, taken, completed, dropped, fault, slotHist,
                   lastStored, storedAtXchg, firstRecvAt, firstStore, rounds, stepsP>>

\* T obj = *ptr;  reading through NULL or a deleted object is undefined: the
\* copy may then hold anything
RecvCopy(c) ==
    /\ pcC[c] = "copy"
    /\ IF ptr[c] # NULL /\ heap[ptr[c]].st = "live"
         THEN /\ obj' = [obj EXCEPT ![c] = heap[ptr[c]].val]
              /\ UNCHANGED fault
         ELSE /\ \E g \in 0..MaxVal : obj' = [obj EXCEPT ![c] = g]
              /\ fault' = fault \cup {IF ptr[c] = NULL THEN "null dereference"
                                                      ELSE "read after delete"}
    /\ pcC' = [pcC EXCEPT ![c] = "ret"]
    /\ ConsTick(c)
    /\ UNCHANGED dh
    /\ UNCHANGED <<config, a_ptr, alive, heap, pcP, prodLoc, ptr, query>>
    /\ UNCHANGED <<sent, received, taken, completed, dropped, slotHist,
                   lastStored, storedAtXchg, firstRecvAt, firstStore, rounds, stepsP>>

\* return obj;  ~unique_ptr deletes the object the value was copied from
RecvRet(c) ==
    /\ pcC[c] = "ret"
    /\ IF ptr[c] = NULL
         THEN UNCHANGED <<heap, fault>>
         ELSE /\ heap' = Delete(heap, ptr[c])
              /\ fault' = IF heap[ptr[c]].st = "live" THEN fault
                          ELSE fault \cup {"double delete"}
    /\ received' = Append(received, obj[c])
    /\ taken' = Append(taken, ptr[c])
    /\ pcC' = [pcC EXCEPT ![c] = "idle"]
    /\ ptr' = [ptr EXCEPT ![c] = NULL]
    /\ obj' = [obj EXCEPT ![c] = 0]
    /\ storedAtXchg' = [storedAtXchg EXCEPT ![c] = NULL]
    /\ firstStore' = [firstStore EXCEPT ![c] = -1]
    /\ sinceStore' = [sinceStore EXCEPT ![c] = 0]
    /\ rounds' = [rounds EXCEPT ![c] = 0]
    /\ UNCHANGED dh
    /\ UNCHANGED <<config, a_ptr, alive, pcP, prodLoc, query>>
    /\ UNCHANGED <<sent, completed, dropped, slotHist, lastStored, firstRecvAt, stepsP>>

\* ---------------------------------------------------- is_object_present
\* faulty variant: the comparison is inverted
IsObjectPresentResult_Inverted == (a_ptr = NULL)

\* return (a_ptr.load() != NULL);
IsObjectPresentResult == (a_ptr # NULL)

\* bool is_object_present(), called by any thread between the steps of the others
IsObjectPresent ==
    /\ alive
    /\ present' = IsObjectPresentResult
    /\ qctx' = slotHist
    /\ UNCHANGED dh
    /\ UNCHANGED <<config, a_ptr, alive, heap, pcP, prodLoc, pcC, consLoc>>
    /\ UNCHANGED <<sent, received, taken, completed, dropped, fault, slotHist,
                   lastStored, storedAtXchg, firstRecvAt, firstStore, sinceStore, rounds, stepsP>>

\* ------------------------------------------------------------ destruction
\* The class declares no destructor: the implicit one destroys the members
\* sync and a_ptr, and the destructor of std::atomic<T*> does not delete the
\* object a_ptr points to.  The channel is destroyed when no call is running.
Destroy ==
    /\ alive
    /\ \A p \in P : pcP[p] = "idle"
    /\ \A c \in C : pcC[c] = "idle"
    /\ alive' = FALSE
    /\ UNCHANGED dh
    /\ UNCHANGED <<config, a_ptr, heap, pcP, prodLoc, pcC, consLoc, present>>
    /\ UNCHANGED ghost

\* ------------------------------------------------------------------ system
ProducerStep(p) ==
    \/ SendNew(p)
    \/ SendWrite(p)
    \/ SendLoad(p)
    \/ SendSleep(p)
    \/ SendXchg(p)
    \/ SendDel(p)

ConsumerStep(c) ==
    \/ RecvLoad(c)
    \/ RecvSleep(c)
    \/ RecvXchg(c)
    \/ RecvTest(c)
    \/ RecvCopy(c)
    \/ RecvRet(c)

Next ==
    \/ \E p \in P, v \in Values : SendCall(p, v)
    \/ \E p \in P : SendNew(p)
    \/ \E p \in P : SendWrite(p)
    \/ \E p \in P : SendLoad(p)
    \/ \E p \in P : SendSleep(p)
    \/ \E p \in P : SendXchg(p)
    \/ \E p \in P : SendDel(p)
    \/ \E c \in C : RecvCall(c)
    \/ \E c \in C : RecvLoad(c)
    \/ \E c \in C : RecvSleep(c)
    \/ \E c \in C : RecvXchg(c)
    \/ \E c \in C : RecvTest(c)
    \/ \E c \in C : RecvCopy(c)
    \/ \E c \in C : RecvRet(c)
    \/ IsObjectPresent
    \/ Destroy

Spec == Init /\ [][Next]_vars

SpecMC == InitMC /\ [][Next]_vars

SpecMP == InitMP /\ [][Next]_vars

SpecDH == InitDH /\ [][NextDH]_vars

\* A thread inside receive() is runnable at every step (sleep_for returns), so
\* the scheduler lets it take its next step.
FairSpec == InitFair /\ [][Next]_vars /\ \A c \in C : WF_vars(ConsumerStep(c))

\* The producer thread inside send() is runnable at every step as well, and a
\* consumer that calls receive() repeatedly makes its next call once the
\* previous one has returned.
ConsumerThread(c) == RecvCall(c) \/ ConsumerStep(c)

FairBoth ==
    /\ InitFairSync /\ [][Next]_vars
    /\ \A p \in P : WF_vars(ProducerStep(p))
    /\ \A c \in C : WF_vars(ConsumerThread(c))

\* ================================================================ properties
InRecv == {"test", "copy", "ret"}   \* positions where ptr holds the exchange's result

\* C1: in synchronous mode with one producer and one consumer, the values
\* returned by receive() so far are a prefix of the values passed to send(), in
\* order, each copied from the next object sent (none dropped, none delivered
\* twice); when every send and as many receives have completed the two
\* sequences are equal.
C1_SyncInOrder ==
    sync =>
        /\ IsPrefix(received, sent)
        /\ \A i \in 1..Len(taken) : taken[i] = i
        /\ (completed = Len(sent) /\ Len(received) = completed) => received = sent

C1_Witness ==
    /\ sync
    /\ completed = Len(sent)
    /\ Len(received) >= 2
    /\ received = sent
    /\ sent[1] # sent[2]

\* C2: in overwrite mode, when two or more sends have completed before the
\* first receive() is called, no object of an earlier send than the last of
\* them is ever held or returned by a receive(), and with no further send the
\* first receive() returns the value of the last one.
C2_LastSendWins ==
    (~sync /\ firstRecvAt >= 2) =>
        /\ \A j \in 1..(firstRecvAt - 1) :
              /\ j \notin Range(taken)
              /\ \A c \in consumers : pcC[c] \in InRecv => ptr[c] # j
        /\ \A c \in consumers :
              (pcC[c] = "ret" /\ Len(taken) = 0 /\ Len(sent) = firstRecvAt) =>
                  /\ ptr[c] = firstRecvAt
                  /\ obj[c] = sent[firstRecvAt]

C2_Witness ==
    /\ ~sync
    /\ firstRecvAt >= 2
    /\ Len(sent) = firstRecvAt
    /\ received = <<sent[firstRecvAt]>>
    /\ sent[firstRecvAt] # sent[1]
    /\ a_ptr = NULL

\* C3: in synchronous mode with a single producer, the slot is NULL when send
\* makes its exchange: the exchange returns NULL, send deletes nothing, and the
\* only objects ever deleted are those a receive() has returned.
C3_SyncStoresIntoEmpty ==
    sync =>
        /\ \A p \in producers : pcP[p] = "xchg" => a_ptr = NULL
        /\ \A p \in producers : pcP[p] = "del" => old_ptr[p] = NULL
        /\ dropped = {}
        /\ \A i \in Ids : heap[i].st = "deleted" => i \in Range(taken)

C3_Witness ==
    /\ sync
    /\ pcP["p1"] = "del"
    /\ stepsP["p1"] >= 5
    /\ completed >= 1
    /\ Len(taken) = completed

\* C4: in both modes, also with two consumers racing for the slot, a receive()
\* never reads through a NULL handle, and the value it returns is the content
\* of a live object that a send() allocated and wrote.
C4_ReceiveReturnsSentValue ==
    /\ "null dereference" \notin fault
    /\ \A c \in consumers :
          pcC[c] \in {"copy", "ret"} => ptr[c] # NULL /\ heap[ptr[c]].st = "live"
    /\ \A c \in consumers :
          pcC[c] = "ret" => obj[c] = heap[ptr[c]].val /\ obj[c] = sent[ptr[c]]
    /\ \A i \in 1..Len(received) :
          taken[i] # NULL /\ received[i] = sent[taken[i]]

C4_Witness ==
    \E c \in consumers :
        /\ pcC[c] = "ret"
        /\ rounds[c] >= 2
        /\ obj[c] = sent[ptr[c]]

\* C5 as stated: a receive() called on an empty slot returns the value of the
\* first send that stored after the call.
C5_ReturnsFirstStored ==
    \A c \in consumers :
        (pcC[c] = "ret" /\ firstStore[c] > 0) => ptr[c] = firstStore[c]

C5_Safe ==
    \A c \in consumers :
        /\ firstStore[c] = 0 => pcC[c] \in {"load", "sleep"}
        /\ sinceStore[c] <= 5
        /\ (pcC[c] = "ret" /\ firstStore[c] > 0) =>
              /\ ptr[c] = storedAtXchg[c]
              /\ ptr[c] >= firstStore[c]
              /\ sync => ptr[c] = firstStore[c]
              /\ obj[c] = sent[ptr[c]]

\* C5 (amended): a receive() called on an empty slot does not return while no
\* send has stored; once one has, the consumer being scheduled fairly, the
\* receive() returns with its sixth own step at the latest, and it returns the value of
\* the last send that stored before its exchange: the first one in synchronous
\* mode, that one or a later one in overwrite mode.
C5_ReceiveAfterStore ==
    /\ []C5_Safe
    /\ (pcC["c1"] # "idle" /\ firstStore["c1"] > 0) ~> (pcC["c1"] = "idle")

C5_Witness ==
    /\ pcC["c1"] = "ret"
    /\ firstStore["c1"] > 0
    /\ sinceStore["c1"] = 5
    /\ obj["c1"] = sent[firstStore["c1"]]

\* C6: is_object_present() returns false when nothing has been stored since
\* construction or since the exchange of the last receive(), and true exactly
\* when the slot holds a value.
C6_PresentIffStored ==
    /\ (a_ptr # NULL) <=> (slotHist = "stored")
    /\ qctx # "none" => present = (qctx = "stored")

C6_Witness ==
    /\ qctx = "taken"
    /\ present = FALSE
    /\ Len(received) >= 1
    /\ pcC["c1"] = "idle"

\* C7: in overwrite mode a send never polls: whatever the slot holds and
\* whatever the consumer does, each of its steps can be taken at once, it ends
\* after exactly four steps, and its exchange puts its object, holding the
\* value sent, into the slot.
C7_OverwriteSendNeverWaits ==
    ~sync =>
        \A p \in producers :
            /\ pcP[p] \notin {"load", "sleep"}
            /\ pcP[p] # "idle" => ENABLED ProducerStep(p)
            /\ stepsP[p] <= 4
            /\ (pcP[p] = "idle" /\ completed > 0) => stepsP[p] = 4
            /\ pcP[p] = "del" =>
                  /\ lastStored = new_ptr[p]
                  /\ heap[new_ptr[p]].val = arg[p]
                  /\ \/ a_ptr = new_ptr[p]
                     \/ \E c \in consumers : pcC[c] \in InRecv /\ ptr[c] = new_ptr[p]
                     \/ new_ptr[p] \in Range(taken)

C7_Witness ==
    /\ ~sync
    /\ firstRecvAt = -1
    /\ pcP["p1"] = "idle"
    /\ completed >= 2
    /\ dropped # {}
    /\ a_ptr = completed

\* who can reach object i
Holders(i) ==
    {<<"slot">> : x \in {a_ptr} \cap {i}}
    \cup {<<"producer", p>> : p \in {q \in P :
              \/ pcP[q] \in {"write", "load", "sleep", "xchg"} /\ new_ptr[q] = i
              \/ pcP[q] = "del" /\ old_ptr[q] = i}}
    \cup {<<"consumer", c>> : c \in {d \in C : pcC[d] \in InRecv /\ ptr[d] = i}}

\* C8: with one producer and one consumer, in both modes, a live object is
\* reachable by exactly one of the producer, the slot and the consumer; the
\* consumer only holds live, fully written objects, and nothing is read or
\* deleted after it was deleted.
C8_ExclusiveOwnership ==
    /\ fault = {}
    /\ alive => \A i \in Ids : heap[i].st = "live" => Cardinality(Holders(i)) = 1
    /\ \A c \in consumers :
          (pcC[c] \in InRecv /\ ptr[c] # NULL) =>
              /\ heap[ptr[c]].st = "live"
              /\ heap[ptr[c]].val # 0
              /\ \A p \in producers : pcP[p] = "write" => new_ptr[p] # ptr[c]
    /\ a_ptr # NULL => heap[a_ptr].st = "live" /\ heap[a_ptr].val # 0

C8_Witness ==
    /\ pcC["c1"] = "copy"
    /\ pcP["p1"] = "write"
    /\ heap[ptr["c1"]].st = "live"
    /\ heap[new_ptr["p1"]].st = "live"
    /\ \E i \in Ids : heap[i].st = "deleted"

\* C9: in overwrite mode with one producer and one consumer, the objects
\* returned by receive() are in strictly increasing send order, each value is
\* the one sent with its object, each is the object of the last send exchange
\* before the receive's exchange, and an object a send displaced is never
\* held or returned by a receive().
C9_OverwriteSubsequence ==
    ~sync =>
        /\ \A i, j \in 1..Len(taken) : i < j => taken[i] < taken[j]
        /\ \A i \in 1..Len(taken) : received[i] = sent[taken[i]]
        /\ \A c \in consumers :
              (pcC[c] \in InRecv /\ ptr[c] # NULL) =>
                  ptr[c] = storedAtXchg[c] /\ ptr[c] \notin dropped
        /\ dropped \cap Range(taken) = {}

C9_Witness ==
    /\ ~sync
    /\ taken = <<1, 3>>
    /\ dropped = {2}
    /\ received = <<sent[1], sent[3]>>

\* C10: once the channel is destroyed, no object allocated by send is left
\* allocated.
C10_DestroyReleasesPending ==
    ~alive => \A i \in Ids : heap[i].st # "live"

\* C11: in synchronous mode a send either completes having stored its value
\* or blocks: while the consumer has never called receive(), at most the first
\* send returns, a later one stays before its exchange and leaves the slot as
\* it is; no call meets undefined behaviour and no object is displaced.
C11_SyncSendOnlyBlocks ==
    sync =>
        /\ fault = {}
        /\ dropped = {}
        /\ \A i \in 1..completed :
              \/ a_ptr = i
              \/ \E c \in consumers : pcC[c] \in InRecv /\ ptr[c] = i
              \/ i \in Range(taken)
        /\ firstRecvAt = -1 =>
              /\ completed <= 1
              /\ a_ptr \in {NULL, 1}
              /\ \A p \in producers :
                    Len(sent) >= 2 => pcP[p] \in {"new", "write", "load", "sleep"}
              /\ \A p \in producers :
                    (pcP[p] \in {"load", "sleep"} /\ a_ptr # NULL) =>
                        ~ ENABLED (ProducerStep(p) /\ (a_ptr' # a_ptr \/ pcP'[p] \in {"xchg", "del", "idle"}))

C11_Witness ==
    /\ sync
    /\ firstRecvAt = -1
    /\ Len(sent) = 2
    /\ a_ptr = 1
    /\ pcP["p1"] = "sleep"
    /\ stepsP["p1"] >= 5

\* the threshold that a sequence of new_threshold arguments leaves stored
RECURSIVE LastNonNegative(_)
LastNonNegative(s) ==
    IF s = <<>> THEN 50
    ELSE IF s[Len(s)] >= 0 THEN s[Len(s)]
    ELSE LastNonNegative(SubSeq(s, 1, Len(s) - 1))

\* C12: the stored threshold starts at 0.5; after any sequence of predict and
\* annotate calls it is the last non-negative new_threshold passed, or 0.5 if
\* there was none, and a call with a negative new_threshold applies the value
\* stored before it.
C12_ThresholdIsLastNonNegative ==
    /\ threshold = LastNonNegative(calls)
    /\ threshold >= 0
    /\ predictedWith >= 0
    /\ (calls # <<>> /\ calls[Len(calls)] < 0) =>
          threshold = LastNonNegative(SubSeq(calls, 1, Len(calls) - 1))

C12_Witness ==
    /\ Len(calls) = 3
    /\ calls[1] < 0
    /\ calls[2] = 0
    /\ calls[3] < 0
    /\ threshold = 0

\* C13: annotate() leaves prediction_results as predict() made them: they are
\* the objects of the image whose probability reaches the threshold predict()
\* applied, and the boxes annotate() draws are among them, whatever lower
\* threshold annotate() is given.
C13_AnnotateKeepsExclusions ==
    /\ prediction_results = Detect(original_image, predictedWith)
    /\ \A d \in annotated_image.boxes :
          d \in annotated_image.image /\ d >= annotatedFrom

C13_Witness ==
    /\ predictedWith = 75
    /\ threshold = 25
    /\ calls = <<75, 25>>
    /\ original_image = {30, 60, 90}
    /\ prediction_results = {90}
    /\ annotated_image = [image |-> {30, 60, 90}, boxes |-> {90}]

\* C14: in overwrite mode a receive() that runs while send(A) is followed by
\* send(B) may return either value.  Where the consumer and the second send
\* both stand before their exchange on a slot that holds A, either exchange can
\* come first: the consumer's takes A and empties the slot, the producer's
\* stores B and gets A back.  What a receive() took is never displaced and is
\* what it returns; what a send displaced is never returned; the value stored
\* last is never displaced, so it is still there for the next receive().
C14_EitherValueReturned ==
    ~sync =>
        \A p \in producers, c \in consumers :
            /\ (pcC[c] = "xchg" /\ pcP[p] = "xchg" /\ a_ptr # NULL) =>
                  /\ ENABLED (RecvXchg(c) /\ ptr'[c] = a_ptr /\ a_ptr' = NULL)
                  /\ ENABLED (SendXchg(p) /\ a_ptr' = new_ptr[p] /\ old_ptr'[p] = a_ptr)
            /\ (pcC[c] \in InRecv /\ ptr[c] # NULL) =>
                  /\ ptr[c] \notin dropped
                  /\ heap[ptr[c]].val = sent[ptr[c]]
            /\ pcC[c] = "ret" => obj[c] = sent[ptr[c]]
            /\ dropped \cap Range(taken) = {}
            /\ lastStored \notin dropped
            /\ \A i \in 1..lastStored :
                  \/ a_ptr = i
                  \/ pcC[c] \in InRecv /\ ptr[c] = i
                  \/ i \in Range(taken)
                  \/ i \in dropped
            /\ Len(received) = Len(taken)
            /\ \A k \in 1..Len(taken) : received[k] = sent[taken[k]]

\* the receive() was called before send(A) returned; A is in the slot, and the
\* consumer and send(B) are both about to exchange
C14_Witness ==
    /\ ~sync
    /\ firstRecvAt = 0
    /\ Len(sent) = 2 /\ sent[1] # sent[2]
    /\ a_ptr = 1
    /\ pcC["c1"] = "xchg" /\ rounds["c1"] = 0
    /\ pcP["p1"] = "xchg" /\ new_ptr["p1"] = 2

\* the two outcomes of that receive(), the first one made
C14_ReturnedA ==
    /\ ~sync /\ firstRecvAt = 0 /\ Len(sent) = 2 /\ sent[1] # sent[2]
    /\ received = <<sent[1]>> /\ a_ptr = 2 /\ dropped = {}

C14_ReturnedB ==
    /\ ~sync /\ firstRecvAt = 0 /\ Len(sent) = 2 /\ sent[1] # sent[2]
    /\ received = <<sent[2]>> /\ a_ptr = NULL /\ dropped = {1} /\ taken = <<2>>

\* C15: in synchronous mode with one producer and one consumer, both scheduled
\* fairly and the consumer calling receive() again and again for as long as the
\* channel exists: every send that was called returns, the i-th value sent
\* becomes the i-th value returned, a producer polling an empty slot leaves its
\* loop for the exchange, and so does a consumer polling a full slot.
C15_SyncEverySendDelivered ==
    /\ \A i \in 1..MaxSendsFair :
          (sync /\ Len(sent) >= i) ~>
              (/\ completed >= i
               /\ \/ Len(received) >= i /\ received[i] = sent[i] /\ taken[i] = i
                  \/ ~alive)
    /\ (sync /\ pcP["p1"] \in {"load", "sleep"} /\ a_ptr = NULL) ~> (pcP["p1"] = "xchg")
    /\ (sync /\ pcC["c1"] \in {"load", "sleep"} /\ a_ptr # NULL) ~> (pcC["c1"] = "xchg")

\* the second send has polled a full slot, slept, and left its loop after the
\* consumer took the first value
C15_Witness ==
    /\ sync
    /\ Len(sent) = 2
    /\ taken = <<1>>
    /\ a_ptr = NULL
    /\ pcP["p1"] = "xchg"
    /\ stepsP["p1"] = ProdStepCap

\* C16: with a single consumer, whatever the producers do, a receive() reaches
\* its exchange only on a slot that is not empty, the exchange returns an
\* object, and the loop test sends it on to the copy: one exchange per call,
\* and no retry.
C16_SingleConsumerNeverRetries ==
    \A c \in consumers :
        /\ rounds[c] <= 1
        /\ pcC[c] = "xchg" => a_ptr # NULL /\ rounds[c] = 0
        /\ pcC[c] \in InRecv => ptr[c] # NULL /\ rounds[c] = 1
        /\ pcC[c] = "test" =>
              /\ ENABLED (RecvTest(c) /\ pcC'[c] = "copy")
              /\ ~ ENABLED (RecvTest(c) /\ pcC'[c] = "load")

\* both producers have exchanged, one displacing the other's object, and the
\* consumer has made its one exchange
C16_Witness ==
    /\ producers = {"p1", "p2"}
    /\ pcP["p1"] = "del" /\ pcP["p2"] = "del"
    /\ dropped # {}
    /\ pcC["c1"] = "test"
    /\ rounds["c1"] = 1
    /\ ptr["c1"] # NULL

\* with a second consumer the retry happens: a receive() is back at its inner
\* loop after an exchange that returned NULL
C16_RetryTaken ==
    \E c \in consumers : pcC[c] = "load" /\ rounds[c] >= 1 /\ ptr[c] = NULL

\* C17: with two producers on a synchronous-mode channel the exchange of a
\* send does not look at the slot again: a producer that has left its polling
\* loop stores its object whatever the slot holds by then, and gets back, and
\* deletes, an object the other producer stored in the meantime.  Such an
\* object was never taken by a receive().
C17_TwoProducersDrop ==
    sync =>
        /\ \A p \in producers :
              pcP[p] = "xchg" =>
                  /\ ENABLED (SendXchg(p) /\ a_ptr' = new_ptr[p] /\ old_ptr'[p] = a_ptr)
                  /\ a_ptr # NULL =>
                        ENABLED (SendXchg(p) /\ old_ptr'[p] # NULL /\ old_ptr'[p] \in dropped')
        /\ \A i \in dropped :
              /\ i \notin Range(taken)
              /\ \A c \in consumers : ptr[c] # i
              /\ a_ptr # i
              /\ \/ heap[i].st = "deleted"
                 \/ \E p \in producers : pcP[p] = "del" /\ old_ptr[p] = i /\ heap[i].st = "live"
        /\ fault = {}

\* both sends have returned, and the object of one of them was displaced and
\* deleted without having been received
C17_Witness ==
    /\ sync
    /\ producers = {"p1", "p2"}
    /\ completed = 2
    /\ received = <<>>
    /\ \E i \in dropped : heap[i].st = "deleted" /\ a_ptr # NULL /\ a_ptr # i

\* both producers have passed the check on the empty slot
C17_BothPassedCheck ==
    sync /\ a_ptr = NULL /\ pcP["p1"] = "xchg" /\ pcP["p2"] = "xchg"

\* C18: with two consumers racing, in both modes, no object is handed to two
\* receive() calls: the objects the returned values were copied from are all
\* different, two consumers never hold the same object, none holds one that has
\* already been returned, and a consumer whose exchange came back empty goes
\* back to polling and not on to the copy.
C18_AtMostOneConsumerPerObject ==
    /\ \A j, k \in 1..Len(taken) : j # k => taken[j] # taken[k]
    /\ Len(received) = Len(taken)
    /\ \A c \in consumers :
          (pcC[c] \in InRecv /\ ptr[c] # NULL) =>
              /\ ptr[c] \notin Range(taken)
              /\ a_ptr # ptr[c]
              /\ \A d \in consumers \ {c} : pcC[d] \in InRecv => ptr[d] # ptr[c]
    /\ \A c \in consumers :
          (pcC[c] = "test" /\ ptr[c] = NULL) =>
              /\ ENABLED (RecvTest(c) /\ pcC'[c] = "load")
              /\ ~ ENABLED (RecvTest(c) /\ pcC'[c] \in {"copy", "ret", "idle"})
    /\ \A c \in consumers :
          (pcC[c] \in {"load", "sleep", "xchg"} /\ rounds[c] >= 1) =>
              ptr[c] = NULL /\ obj[c] = 0

\* one consumer holds the object; the other saw the slot full, exchanged too
\* late, and is back at its polling loop
C18_Witness ==
    /\ consumers = {"c1", "c2"}
    /\ \E c \in consumers, d \in consumers :
          /\ c # d
          /\ pcC[c] \in InRecv /\ ptr[c] # NULL
          /\ pcC[d] = "load" /\ rounds[d] = 1 /\ ptr[d] = NULL
    /\ taken = <<>>

\* C19: with one producer and one consumer, in both modes, no object is
\* deleted twice or read after its deletion; an object a receive() took is
\* deleted when that receive() returns, an object a send displaced is deleted
\* when that send returns, each by the thread that holds it; while no call is
\* running the only object still allocated is the one in the slot, if any.
C19_RemovedObjectsDeletedByRemover ==
    /\ fault = {}
    /\ \A i \in Range(taken) : heap[i].st = "deleted"
    /\ \A i \in dropped :
          \/ heap[i].st = "deleted"
          \/ \E p \in producers : pcP[p] = "del" /\ old_ptr[p] = i /\ heap[i].st = "live"
    /\ \A p \in producers :
          /\ (pcP[p] = "del" /\ old_ptr[p] # NULL) =>
                ENABLED (SendDel(p) /\ heap'[old_ptr[p]].st = "deleted" /\ pcP'[p] = "idle")
          /\ pcP[p] # "del" => old_ptr[p] = NULL
    /\ \A c \in consumers :
          /\ pcC[c] = "ret" =>
                ENABLED (RecvRet(c) /\ heap'[ptr[c]].st = "deleted" /\ pcC'[c] = "idle")
          /\ pcC[c] \notin InRecv => ptr[c] = NULL
    /\ \A i \in Ids :
          heap[i].st = "deleted" => i \in Range(taken) \cup dropped
    /\ ((\A p \in P : pcP[p] = "idle") /\ (\A c \in C : pcC[c] = "idle")) =>
          /\ \A i \in Ids : heap[i].st = "live" => a_ptr = i
          /\ Cardinality({i \in Ids : heap[i].st = "live"}) <= 1

\* between calls in overwrite mode: the first object was received, the second
\* displaced, both are deleted, and the third is in the slot
C19_Witness ==
    /\ ~sync
    /\ pcP["p1"] = "idle" /\ pcC["c1"] = "idle"
    /\ taken = <<1>>
    /\ dropped = {2}
    /\ heap[1].st = "deleted" /\ heap[2].st = "deleted"
    /\ a_ptr = 3 /\ heap[3].st = "live"

====
